---- MODULE Spec2Model ----
(***************************************************************************)
(* State-machine model of the wordlesolver Predictor (src/analytics.py),   *)
(* its lexicon helpers (src/data.py) and the game-response oracle of the   *)
(* stability test (src/stability_test.py).                                 *)
(*                                                                         *)
(* Words and game responses are tuples of one-character strings.  Python   *)
(* positions 0..4 are positions 1..5 here.                                 *)
(***************************************************************************)
EXTENDS Integers, Sequences, FiniteSets, TLC

VARIABLES
    wordbank,       \* Predictor.wordbank: ordered word -> rank mapping, as a sequence of [word, rank]
    round,          \* Predictor.round
    highest_rank,   \* Predictor._highest_rank
    output_size,    \* Predictor._output_size
    previous_result,                    \* Predictor._previous_result
    target_word_has_repeating_letters,  \* Predictor._target_word_has_repeating_letters
    wrong_letters,      \* Predictor._wrong_letters: letter -> set of positions
    misplaced_letters,  \* Predictor._misplaced_letters: letter -> set of positions
    correct_letters,    \* Predictor._correct_letters: insertion-ordered sequence of [letter, indexes]
    unique_letters,     \* Predictor._unique_letters
    call,           \* the last call made on the engine: [op, guess, game_response]
    outcome,        \* how that call ended: "returned" or the name of the exception raised
    suggestions,    \* the list the last predict_wordle call returned
    guessed,        \* history: the guesses of the calibrate calls that returned normally
    honest_targets, \* history: the words T for which every accepted response so far is mimic_game_response(guess, T), guess # T
    ranking,        \* a call of data.rank_word_popularity: [word, frequency_table, ranked, rank]
    harness,        \* stability_test: shared_process_state and the simulated games, [used, lock, pc, starting_words, guess]
    cli             \* cli.main: [pc, status, code, guesses, responses, guess, game_response]

engine == <<wordbank, round, highest_rank, output_size, previous_result,
            target_word_has_repeating_letters, wrong_letters, misplaced_letters,
            correct_letters, unique_letters>>

vars == <<wordbank, round, highest_rank, output_size, previous_result,
          target_word_has_repeating_letters, wrong_letters, misplaced_letters,
          correct_letters, unique_letters, call, outcome, suggestions,
          guessed, honest_targets, ranking, harness, cli>>

----------------------------------------------------------------------------
(* Bounds of the model *)

\* number of words of Dictionary that make up the lexicon of the session
LexiconSize == 9

\* the output_size the session is constructed with
OutputSize == 2

\* games the stability test submits per target (first_round_threshold, 50 in the source)
first_round_threshold == 3

----------------------------------------------------------------------------
(* Program constants *)

WORDLE_MAX_WORLD_LENGTH == 5

RoundLimit == 6

TopResults == 50

Positions == 1..WORDLE_MAX_WORLD_LENGTH

Alphabet ==
    {"a", "b", "c", "d", "e", "f", "g", "h", "i", "j", "k", "l", "m",
     "n", "o", "p", "q", "r", "s", "t", "u", "v", "w", "x", "y", "z"}

\* The lines of the dictionary file that pass read_wordle_dictionary, in file order.
Dictionary ==
    << <<"b","a","r","e","s">>, <<"c","a","r","e","s">>, <<"d","a","r","e","s">>,
       <<"f","a","r","e","s">>, <<"h","a","r","e","s">>, <<"r","a","r","e","s">>,
       <<"s","a","d","e","s">>, <<"s","a","l","e","s">>, <<"s","a","s","s","y">>,
       <<"s","i","s","e","s">>, <<"s","h","a","k","e">>, <<"s","o","l","e","s">> >>

read_wordle_dictionary == SubSeq(Dictionary, 1, LexiconSize)

Lexicon == {read_wordle_dictionary[i] : i \in 1..Len(read_wordle_dictionary)}

\* another word list the dictionary file can hold: few words, most of them
\* with a repeated letter
SparseDictionary ==
    << <<"s","o","l","e","s">>, <<"h","a","r","p","y">>, <<"i","n","f","i","x">> >>

\* a guess that is in no dictionary
UnknownWord == <<"j","a","c","k","s">>

----------------------------------------------------------------------------
(* Small helpers for Python built-ins *)

Letters(word) == {word[i] : i \in 1..Len(word)}

\* str.count
Count(word, letter) == Cardinality({i \in 1..Len(word) : word[i] = letter})

Max2(a, b) == IF a >= b THEN a ELSE b

Min2(a, b) == IF a <= b THEN a ELSE b

RECURSIVE SumSeq(_)
SumSeq(s) == IF s = <<>> THEN 0 ELSE Head(s) + SumSeq(Tail(s))

RECURSIVE MaxSeq(_)
MaxSeq(s) == IF Len(s) = 1 THEN Head(s) ELSE Max2(Head(s), MaxSeq(Tail(s)))

\* Python round() of the exact rational n/10: nearest integer, ties to the even one
RoundTenths(n) ==
    LET q == n \div 10
        r == n % 10
    IN  IF r < 5 THEN q
        ELSE IF r > 5 THEN q + 1
        ELSE IF q % 2 = 0 THEN q ELSE q + 1

\* int() of the mean of a non-empty list of integers: truncation toward zero
IntMean(s) ==
    LET t == SumSeq(s)
        n == Len(s)
    IN  IF t >= 0 THEN t \div n ELSE -((-t) \div n)

\* islice(iterable, n)
Islice(s, n) == SubSeq(s, 1, Min2(n, Len(s)))

Words(bank) == {bank[i].word : i \in 1..Len(bank)}

Ranks(bank) == [i \in 1..Len(bank) |-> bank[i].rank]

RankOf(bank, word) == bank[CHOOSE i \in 1..Len(bank) : bank[i].word = word].rank

\* sorted(items, key=rank, reverse=True): stable, equal ranks keep their order
RECURSIVE InsertByRank(_, _)
InsertByRank(sorted, e) ==
    IF sorted = <<>> THEN <<e>>
    ELSE IF Head(sorted).rank >= e.rank THEN <<Head(sorted)>> \o InsertByRank(Tail(sorted), e)
    ELSE <<e>> \o sorted

RECURSIVE SortByRankFrom(_, _, _)
SortByRankFrom(bank, i, acc) ==
    IF i > Len(bank) THEN acc
    ELSE SortByRankFrom(bank, i + 1, InsertByRank(acc, bank[i]))

----------------------------------------------------------------------------
(* src/data.py *)

letter_frequency_distribution(iterable, max_word_length) ==
    [letter \in Alphabet |->
        [position \in 1..max_word_length |->
            Cardinality({i \in 1..Len(iterable) : iterable[i][position] = letter})]]

RECURSIVE rank_word_popularity_from(_, _, _)
rank_word_popularity_from(word, frequency_table, position) ==
    IF position > Len(word) THEN 0
    ELSE Max2(1, frequency_table[word[position]][position])
         + rank_word_popularity_from(word, frequency_table, position + 1)

\* mutant: the score of a letter is its count, without the floor of 1
rank_word_popularity_unfloored(word, frequency_table) ==
    SumSeq([position \in 1..Len(word) |-> frequency_table[word[position]][position]])

rank_word_popularity(word, frequency_table) ==
    rank_word_popularity_from(word, frequency_table, 1)

----------------------------------------------------------------------------
(* src/stability_test.py: the response an honest game gives *)

\* Counter(target); a key is present exactly when its count is positive
TargetCounter(target) == [letter \in Alphabet |-> Count(target, letter)]

responsecode(guess_letter, target_letter, target, target_letters_counter) ==
    IF guess_letter = target_letter THEN "c"
    ELSE IF guess_letter \notin Letters(target) THEN "w"
    ELSE IF target_letters_counter[guess_letter] > 0 THEN "m"
    ELSE "w"

RECURSIVE mimic_from(_, _, _, _)
mimic_from(guess, target, p, target_letters_counter) ==
    IF p > Len(guess) THEN <<>>
    ELSE <<responsecode(guess[p], target[p], target, target_letters_counter)>>
         \o mimic_from(guess, target, p + 1,
                [target_letters_counter EXCEPT ![guess[p]] = Max2(0, @ - 1)])

mimic_game_response(guess, target) ==
    mimic_from(guess, target, 1, TargetCounter(target))

----------------------------------------------------------------------------
(* Dictionaries of the constraint state *)

EmptyDict == [letter \in {} |-> {}]

DictAdd(d, letter, position) ==
    [l \in DOMAIN d \cup {letter} |->
        IF l = letter
        THEN (IF letter \in DOMAIN d THEN d[letter] ELSE {}) \cup {position}
        ELSE d[l]]

DictDel(d, letter) == [l \in DOMAIN d \ {letter} |-> d[l]]

\* _correct_letters keeps its insertion order: the positional pattern is
\* written in that order
CorrectKeys(c) == {c[i].letter : i \in 1..Len(c)}

CorrectIndexes(c, letter) ==
    IF letter \in CorrectKeys(c)
    THEN c[CHOOSE i \in 1..Len(c) : c[i].letter = letter].indexes
    ELSE {}

CorrectAdd(c, letter, position) ==
    IF letter \in CorrectKeys(c)
    THEN [i \in 1..Len(c) |->
            IF c[i].letter = letter
            THEN [letter |-> letter, indexes |-> c[i].indexes \cup {position}]
            ELSE c[i]]
    ELSE Append(c, [letter |-> letter, indexes |-> {position}])

----------------------------------------------------------------------------
(* Predictor._prepare_wordbank *)

prepare_wordbank_of(dictionary) ==
    LET table == letter_frequency_distribution(dictionary, WORDLE_MAX_WORLD_LENGTH)
        ranked == [i \in 1..Len(dictionary) |->
                      [word |-> dictionary[i],
                       rank |-> rank_word_popularity(dictionary[i], table)]]
    IN  SortByRankFrom(ranked, 1, <<>>)

prepare_wordbank == prepare_wordbank_of(read_wordle_dictionary)

----------------------------------------------------------------------------
(* Predictor._screen_inputs *)

AllCorrect == <<"c", "c", "c", "c", "c">>

AllWrong == <<"w", "w", "w", "w", "w">>

\* mutant: the all-correct check comes before the round check
screen_inputs_victory_first(guess, game_response) ==
    IF game_response = AllCorrect THEN "Victory"
    ELSE IF round > RoundLimit THEN "EndGameError"
    ELSE IF \E i \in 1..Len(game_response) : game_response[i] \notin {"w", "m", "c"}
         THEN "ValueError"
    ELSE IF Len(game_response) # 5 THEN "ValueError"
    ELSE IF guess \notin Words(wordbank) THEN "ValueError"
    ELSE "returned"

\* mutant: one round more is allowed
screen_inputs_one_more_round(guess, game_response) ==
    IF round > RoundLimit + 1 THEN "EndGameError"
    ELSE IF game_response = AllCorrect THEN "Victory"
    ELSE IF \E i \in 1..Len(game_response) : game_response[i] \notin {"w", "m", "c"}
         THEN "ValueError"
    ELSE IF Len(game_response) # 5 THEN "ValueError"
    ELSE IF guess \notin Words(wordbank) THEN "ValueError"
    ELSE "returned"

\* mutant: the guess is not looked up in the store
screen_inputs_any_guess(guess, game_response) ==
    IF round > RoundLimit THEN "EndGameError"
    ELSE IF game_response = AllCorrect THEN "Victory"
    ELSE IF \E i \in 1..Len(game_response) : game_response[i] \notin {"w", "m", "c"}
         THEN "ValueError"
    ELSE IF Len(game_response) # 5 THEN "ValueError"
    ELSE "returned"

\* mutant: the guess is looked up before the all-correct check
screen_inputs_membership_first(guess, game_response) ==
    IF round > RoundLimit THEN "EndGameError"
    ELSE IF guess \notin Words(wordbank) THEN "ValueError"
    ELSE IF game_response = AllCorrect THEN "Victory"
    ELSE IF \E i \in 1..Len(game_response) : game_response[i] \notin {"w", "m", "c"}
         THEN "ValueError"
    ELSE IF Len(game_response) # 5 THEN "ValueError"
    ELSE "returned"

screen_inputs(guess, game_response) ==
    IF round > RoundLimit THEN "EndGameError"
    ELSE IF game_response = AllCorrect THEN "Victory"
    ELSE IF \E i \in 1..Len(game_response) : game_response[i] \notin {"w", "m", "c"}
         THEN "ValueError"
    ELSE IF Len(game_response) # 5 THEN "ValueError"
    ELSE IF guess \notin Words(wordbank) THEN "ValueError"
    ELSE "returned"

----------------------------------------------------------------------------
(* Predictor._parse_game_response *)

parse_position(st, letter, position, state) ==
    IF state = "w" THEN
        IF letter \in CorrectKeys(st.correct)
        THEN [st EXCEPT !.unique = @ \cup {letter}]
        ELSE IF letter \in DOMAIN st.misplaced
        THEN st
        ELSE [st EXCEPT !.wrong = DictAdd(@, letter, position)]
    ELSE IF state = "c" THEN
        [st EXCEPT !.wrong = DictDel(@, letter),
                   !.misplaced = DictDel(@, letter),
                   !.correct = CorrectAdd(@, letter, position)]
    ELSE IF state = "m" THEN
        [st EXCEPT !.misplaced = DictAdd(@, letter, position)]
    ELSE st

RECURSIVE parse_from(_, _, _, _)
parse_from(st, guess, game_response, position) ==
    IF position > Len(game_response) THEN st
    ELSE parse_from(parse_position(st, guess[position], position, game_response[position]),
                    guess, game_response, position + 1)

parse_game_response(guess, game_response) ==
    parse_from([wrong |-> wrong_letters, misplaced |-> misplaced_letters,
                correct |-> correct_letters, unique |-> unique_letters],
               guess, game_response, 1)

\* Predictor._predict_if_target_has_repeating_letters: its value is returned
\* to calibrate, which drops it
predict_if_target_has_repeating_letters(st) ==
    \E i \in 1..Len(st.correct) : Cardinality(st.correct[i].indexes) > 1

----------------------------------------------------------------------------
(* Predictor._reduce_wordbank *)

has_repeating_letters(word) == Len(word) # Cardinality(Letters(word))

has_repeating_letters_that_should_be_unique(word, st) ==
    \E letter \in st.unique : Count(word, letter) > 1

\* mutant: only the positions where the letter was reported wrong are checked
has_wrong_letters_positional(word, st) ==
    \E letter \in DOMAIN st.wrong : \E i \in st.wrong[letter] : word[i] = letter

has_wrong_letters(word, st) == (DOMAIN st.wrong) \cap Letters(word) # {}

RECURSIVE correct_pattern_from(_, _, _)
correct_pattern_from(correct, k, pattern) ==
    IF k > Len(correct) THEN pattern
    ELSE correct_pattern_from(correct, k + 1,
            [i \in Positions |-> IF i \in correct[k].indexes THEN correct[k].letter ELSE pattern[i]])

\* the pattern of the compiled expression: a letter or "." per position
recompile_correct_letters_regex(st) ==
    correct_pattern_from(st.correct, 1, [i \in Positions |-> "."])

\* mutant: the confirmed letters are looked for anywhere in the word
has_all_correct_letters_anywhere(word, st) ==
    CorrectKeys(st.correct) \subseteq Letters(word)

has_all_correct_letters(word, st) ==
    LET pattern == recompile_correct_letters_regex(st)
    IN  /\ Len(word) = WORDLE_MAX_WORLD_LENGTH
        /\ \A i \in Positions : pattern[i] = "." \/ pattern[i] = word[i]

\* index -> the letters misplaced there
recompile_misplaced_letters_regex(st) ==
    [index \in Positions |-> {letter \in DOMAIN st.misplaced : index \in st.misplaced[letter]}]

\* one alternative per index; on a five-letter word each one matches exactly
\* when the word has one of the letters of its class at that index
has_any_misplaced_letters(word, st) ==
    LET reverse_dict == recompile_misplaced_letters_regex(st)
    IN  \E index \in Positions : word[index] \in reverse_dict[index]

\* mutant: the guessed word is not dropped for being the guess
should_keep_word_ignoring_guess(word, guess, st) ==
    /\ target_word_has_repeating_letters => has_repeating_letters(word)
    /\ ~has_repeating_letters_that_should_be_unique(word, st)
    /\ (DOMAIN st.wrong # {}) => ~has_wrong_letters(word, st)
    /\ (st.correct # <<>>) => has_all_correct_letters(word, st)
    /\ (DOMAIN st.misplaced # {}) => ~has_any_misplaced_letters(word, st)

should_keep_word_for_the_next_round(word, guess, st) ==
    /\ word # guess
    /\ target_word_has_repeating_letters => has_repeating_letters(word)
    /\ ~has_repeating_letters_that_should_be_unique(word, st)
    /\ (DOMAIN st.wrong # {}) => ~has_wrong_letters(word, st)
    /\ (st.correct # <<>>) => has_all_correct_letters(word, st)
    /\ (DOMAIN st.misplaced # {}) => ~has_any_misplaced_letters(word, st)

\* mutant: the candidates are recomputed from the whole lexicon every round
reduce_wordbank_from_lexicon(bank, guess, st) ==
    SelectSeq(prepare_wordbank,
              LAMBDA e : should_keep_word_for_the_next_round(e.word, guess, st))

reduce_wordbank(bank, guess, st) ==
    SelectSeq(bank, LAMBDA e : should_keep_word_for_the_next_round(e.word, guess, st))

----------------------------------------------------------------------------
(* Predictor._promote_words, _sort_words_by_highest_rank_first *)

\* mutant: a misplaced letter counts once, however often the word has it
promotion_bonus_distinct(word, st) ==
    Cardinality({position \in 1..Len(word) :
                    position \in CorrectIndexes(st.correct, word[position])})
    + Cardinality(Letters(word) \cap DOMAIN st.misplaced)

promotion_bonus(word, st) ==
    Cardinality({position \in 1..Len(word) :
                    position \in CorrectIndexes(st.correct, word[position])})
    + Cardinality({position \in 1..Len(word) : word[position] \in DOMAIN st.misplaced})

\* mutant: the boost and the penalty are swapped
promote_words_swapped(word, rank, st) ==
    LET bonus == promotion_bonus(word, st)
    IN  IF bonus # 0
        THEN IF /\ Len(word) > Cardinality(Letters(word))
                /\ ~(\E i \in 1..Len(word) : word[i] \in DOMAIN st.misplaced)
             THEN RoundTenths(10 * highest_rank + bonus * rank)
             ELSE RoundTenths(10 * highest_rank - bonus * rank)
        ELSE rank

promote_words_with_correct_letters(word, rank, st) ==
    LET bonus == promotion_bonus(word, st)
    IN  IF bonus # 0
        THEN IF /\ Len(word) > Cardinality(Letters(word))
                /\ ~(\E i \in 1..Len(word) : word[i] \in DOMAIN st.misplaced)
             THEN RoundTenths(10 * highest_rank - bonus * rank)
             ELSE RoundTenths(10 * highest_rank + bonus * rank)
        ELSE rank

promote_words(bank, st) ==
    [i \in 1..Len(bank) |->
        [word |-> bank[i].word,
         rank |-> promote_words_with_correct_letters(bank[i].word, bank[i].rank, st)]]

\* mutant: the store is left in the order the promotion produced
sort_words_skipped(bank) == bank

sort_words_by_highest_rank_first(bank) == SortByRankFrom(bank, 1, <<>>)

\* mutant: the round is not advanced
refreshed_round_stuck == round

\* self.round += 1
refreshed_round == round + 1

\* mutant: the highest rank of the construction is kept
refreshed_highest_rank_kept(bank) == highest_rank

\* max(self.wordbank.values() or [0])
refreshed_highest_rank(bank) == IF bank = <<>> THEN 0 ELSE MaxSeq(Ranks(bank))

----------------------------------------------------------------------------
(* Inputs *)

Codes == {"w", "m", "c"}

WellFormedResponses == [Positions -> Codes]

\* a wrong length, and a character that is no code
MalformedResponses == { <<"c", "c", "c">>, <<"v", "w", "x", "y", "z">> }

AlmostCorrect == <<"c", "c", "c", "c", "w">>

\* The responses tried with every word of the store.  The first guess of a
\* session gets every well-formed response.  Later guesses get the response
\* of an honest game for every target that fits all responses so far, and
\* the all-wrong response.
Responses(guess) ==
    IF guessed = {}
    THEN WellFormedResponses
    ELSE {mimic_game_response(guess, T) : T \in honest_targets} \cup {AllWrong}

\* Further calls tried in every state: the top word of the store with the
\* all-correct and the malformed responses, a word that is in no dictionary,
\* and a word guessed before.
Probes ==
    (IF wordbank = <<>> THEN {}
     ELSE {<<wordbank[1].word, r>> : r \in MalformedResponses \cup {AllCorrect}})
    \cup {<<UnknownWord, AllCorrect>>, <<UnknownWord, AlmostCorrect>>}
    \cup (IF guessed = {} THEN {}
          ELSE {<<CHOOSE w \in guessed : TRUE, AlmostCorrect>>})

----------------------------------------------------------------------------
(* Predictor.__init__ *)

\* no call of rank_word_popularity is observed
NotRanking == [word |-> <<>>, frequency_table |-> <<>>, ranked |-> FALSE, rank |-> 0]

\* the Predictor as its constructor leaves it, and no call made on it yet
ConstructedFrom(dictionary) ==
    /\ wordbank = prepare_wordbank_of(dictionary)
    /\ round = 1
    /\ highest_rank = MaxSeq(Ranks(prepare_wordbank_of(dictionary)))
    /\ output_size = OutputSize
    /\ previous_result = <<>>
    /\ target_word_has_repeating_letters = FALSE
    /\ wrong_letters = EmptyDict
    /\ misplaced_letters = EmptyDict
    /\ correct_letters = <<>>
    /\ unique_letters = {}
    /\ call = [op |-> "init", guess |-> <<>>, game_response |-> <<>>]
    /\ outcome = "returned"
    /\ suggestions = <<>>
    /\ guessed = {}
    /\ honest_targets = {dictionary[i] : i \in 1..Len(dictionary)}

Constructed == ConstructedFrom(read_wordle_dictionary)

\* the command-line app is not running
NoCli == [pc |-> "off", status |-> "off", code |-> -1, guesses |-> <<>>, responses |-> <<>>,
          guess |-> <<>>, game_response |-> <<>>]

\* the stability test is not running
NoHarness == [used |-> <<>>, lock |-> <<>>, pc |-> <<>>, starting_words |-> <<>>, guess |-> <<>>]

Init ==
    /\ ranking = NotRanking
    /\ harness = NoHarness
    /\ cli = NoCli
    /\ Constructed

----------------------------------------------------------------------------
(* Predictor.calibrate *)

\* mutant: a call that signals Victory is processed like an accepted one
passes_screening_or_victory(signal) == signal \in {"returned", "Victory"}

\* _screen_inputs raised nothing, so calibrate goes on to its other steps
passes_screening(signal) == signal = "returned"

calibrate(guess, game_response) ==
    LET signal == screen_inputs(guess, game_response)
        st == parse_game_response(guess, game_response)
        reduced == reduce_wordbank(wordbank, guess, st)
        promoted == promote_words(reduced, st)
        sorted == sort_words_by_highest_rank_first(promoted)
    IN  /\ call' = [op |-> "calibrate", guess |-> guess, game_response |-> game_response]
        /\ outcome' = signal
        /\ suggestions' = <<>>
        /\ IF passes_screening(signal)
           THEN /\ wrong_letters' = st.wrong
                /\ misplaced_letters' = st.misplaced
                /\ correct_letters' = st.correct
                /\ unique_letters' = st.unique
                /\ wordbank' = sorted
                /\ round' = refreshed_round
                /\ highest_rank' = refreshed_highest_rank(sorted)
                /\ previous_result' = game_response
                /\ guessed' = guessed \cup {guess}
                /\ honest_targets' =
                      {T \in honest_targets :
                          T # guess /\ game_response = mimic_game_response(guess, T)}
                /\ UNCHANGED <<output_size, target_word_has_repeating_letters>>
           ELSE UNCHANGED <<engine, guessed, honest_targets>>
        /\ UNCHANGED <<ranking, harness>>

Calibrate ==
    \/ \E guess \in Words(wordbank) :
          \E game_response \in Responses(guess) :
              calibrate(guess, game_response) /\ UNCHANGED cli
    \/ \E probe \in Probes : calibrate(probe[1], probe[2]) /\ UNCHANGED cli

----------------------------------------------------------------------------
(* Predictor.predict_wordle *)

unique_and_popular(word, popularity_cutoff) ==
    /\ Len(word) = Cardinality(Letters(word))
    /\ RankOf(wordbank, word) >= popularity_cutoff

top_50_results ==
    LET popularity_cutoff == IntMean(Ranks(wordbank))
        all == SelectSeq(wordbank, LAMBDA e : unique_and_popular(e.word, popularity_cutoff))
    IN  [i \in 1..Min2(TopResults, Len(all)) |-> all[i].word]

\* the lists shuffle() followed by the slice can produce
Shuffled(results, n) ==
    {s \in [1..n -> {results[i] : i \in 1..Len(results)}] :
        \A i, j \in 1..n : i # j => s[i] # s[j]}

\* mutant: in ranked mode the returned words are taken out of the store
predict_wordle_consuming ==
    /\ call' = [op |-> "predict_wordle", guess |-> <<>>, game_response |-> <<>>]
    /\ IF round = 1 \/ previous_result = AllWrong
       THEN /\ wordbank' = wordbank
            /\ IF wordbank = <<>>
               THEN /\ outcome' = "StatisticsError"
                    /\ suggestions' = <<>>
               ELSE /\ outcome' = "returned"
                    /\ suggestions' \in
                          Shuffled(top_50_results, Min2(output_size, Len(top_50_results)))
       ELSE /\ outcome' = "returned"
            /\ suggestions' = [i \in 1..Min2(output_size, Len(wordbank)) |-> wordbank[i].word]
            /\ wordbank' = SubSeq(wordbank, Min2(output_size, Len(wordbank)) + 1, Len(wordbank))
    /\ UNCHANGED <<round, highest_rank, output_size, previous_result,
                   target_word_has_repeating_letters, wrong_letters, misplaced_letters,
                   correct_letters, unique_letters, guessed, honest_targets, ranking,
                   harness>>

predict_wordle ==
    /\ call' = [op |-> "predict_wordle", guess |-> <<>>, game_response |-> <<>>]
    /\ IF round = 1 \/ previous_result = AllWrong
       THEN IF wordbank = <<>>
            THEN \* mean() of no data
                 /\ outcome' = "StatisticsError"
                 /\ suggestions' = <<>>
            ELSE /\ outcome' = "returned"
                 /\ suggestions' \in
                       Shuffled(top_50_results, Min2(output_size, Len(top_50_results)))
       ELSE /\ outcome' = "returned"
            /\ suggestions' = [i \in 1..Min2(output_size, Len(wordbank)) |-> wordbank[i].word]
    /\ UNCHANGED <<engine, guessed, honest_targets, ranking, harness>>

Predict == predict_wordle /\ UNCHANGED cli

----------------------------------------------------------------------------

Next == Calibrate \/ Predict

Spec == Init /\ [][Next]_vars

\* the same session over the sparse word list
SparseInit ==
    /\ ranking = NotRanking
    /\ harness = NoHarness
    /\ cli = NoCli
    /\ ConstructedFrom(SparseDictionary)

SparseSpec == SparseInit /\ [][Next]_vars

----------------------------------------------------------------------------
(* data.rank_word_popularity, called with any word and any frequency table *)

\* the words ranked: the words of the lexicon, a word outside it, and their prefixes
RankWords ==
    {SubSeq(word, 1, k) : word \in Lexicon \cup {UnknownWord}, k \in 0..WORDLE_MAX_WORLD_LENGTH}

\* the tables ranked against: the frequency table of every run of
\* consecutive dictionary words, the empty run included
RankTables ==
    {letter_frequency_distribution(SubSeq(read_wordle_dictionary, i, j), WORDLE_MAX_WORLD_LENGTH) :
        i \in 1..(LexiconSize + 1), j \in 0..LexiconSize}

RankInit ==
    /\ harness = NoHarness
    /\ cli = NoCli
    /\ ranking \in [word : RankWords, frequency_table : RankTables, ranked : {FALSE}, rank : {0}]
    /\ Constructed

RankWord ==
    /\ ~ranking.ranked
    /\ ranking' = [ranking EXCEPT
                      !.ranked = TRUE,
                      !.rank = rank_word_popularity(ranking.word, ranking.frequency_table)]
    /\ UNCHANGED <<engine, call, outcome, suggestions, guessed, honest_targets, harness, cli>>

RankNext == RankWord

RankSpec == RankInit /\ [][RankNext]_vars

----------------------------------------------------------------------------
(* stability_test.py: the opening guesses of the simulated games.  Every
   game owns a freshly constructed Predictor; the games of one target share
   one character array guarded by its lock.  Arrays and locks of different
   targets are different objects, so one target is modelled. *)

targets == {read_wordle_dictionary[1]}

game_args == (1..first_round_threshold) \X targets

NoGame == <<0, <<>>>>

target_of(game) == game[2]

\* characters the array of one target holds
array_capacity == first_round_threshold * WORDLE_MAX_WORLD_LENGTH

\* the array is read in chunks of word_length characters
get_used_starting_words(key) ==
    LET value == harness.used[key]
    IN  { SubSeq(value, index + 1, Min2(index + WORDLE_MAX_WORLD_LENGTH, Len(value))) :
            index \in { i \in 0..(Len(value) - 1) : i % WORDLE_MAX_WORLD_LENGTH = 0 } }

HarnessInit ==
    /\ ranking = NotRanking
    /\ Constructed
    /\ cli = NoCli
    /\ harness = [used |-> [t \in targets |-> <<>>],
                  lock |-> [t \in targets |-> NoGame],
                  pc |-> [g \in game_args |-> "submitted"],
                  starting_words |-> [g \in game_args |-> {}],
                  guess |-> [g \in game_args |-> <<>>]]

\* mutant: the block is entered whoever holds the lock
get_lock_unguarded(target_word) == TRUE

\* the lock of the target's array can be taken
get_lock(target_word) == harness.lock[target_word] = NoGame

\* with shared_process_state[target_word].get_lock():
enter_block(game) ==
    /\ harness.pc[game] = "submitted"
    /\ get_lock(target_of(game))
    /\ harness' = [harness EXCEPT !.lock[target_of(game)] = game,
                                  !.pc[game] = "locked"]

\* starting_words = set(get_used_starting_words(target_word))
read_starting_words(game) ==
    /\ harness.pc[game] = "locked"
    /\ harness' = [harness EXCEPT
                      !.starting_words[game] = get_used_starting_words(target_of(game)),
                      !.pc[game] = "choosing"]

\* while (guess := predictor.predict_wordle()[0]) in starting_words: pass
\* starting_words.add(guess)
choose_opener(game) ==
    /\ harness.pc[game] = "choosing"
    /\ \E first \in { top_50_results[i] : i \in DOMAIN top_50_results } :
          harness' = [harness EXCEPT
                        !.guess[game] = first,
                        !.starting_words[game] =
                            IF first \in @ THEN @ ELSE @ \cup {first},
                        !.pc[game] =
                            IF first \in harness.starting_words[game]
                            THEN "choosing" ELSE "storing"]

\* shared_process_state[key].value = b''
store_clear(game) ==
    /\ harness.pc[game] = "storing"
    /\ harness' = [harness EXCEPT !.used[target_of(game)] = <<>>,
                                  !.pc[game] = "appending"]

\* shared_process_state[key].value += bytes(word, 'utf-8'), in the set's order
store_append(game) ==
    /\ harness.pc[game] = "appending"
    /\ \E word \in harness.starting_words[game] \ get_used_starting_words(target_of(game)) :
          harness' = [harness EXCEPT !.used[target_of(game)] = @ \o word]

\* the end of the with block
leave_block(game) ==
    /\ harness.pc[game] = "appending"
    /\ harness.starting_words[game] \subseteq get_used_starting_words(target_of(game))
    /\ harness' = [harness EXCEPT !.lock[target_of(game)] = NoGame,
                                  !.pc[game] = "playing"]

simulate_game(game) ==
    /\ \/ enter_block(game)
       \/ read_starting_words(game)
       \/ choose_opener(game)
       \/ store_clear(game)
       \/ store_append(game)
       \/ leave_block(game)
    /\ UNCHANGED <<engine, call, outcome, suggestions, guessed, honest_targets, ranking, cli>>

HarnessNext == \E game \in game_args : simulate_game(game)

HarnessSpec == HarnessInit /\ [][HarnessNext]_vars

----------------------------------------------------------------------------
(* cli.py: main, the interactive loop around one Predictor *)

MAX_ROUNDS == 6

hot_colour == <<"green", "green", "green", "yellow", "yellow", "red">>

\* the dots of the round header; the hot dot is hot_colour[predictor.round - 1],
\* which a tuple of six answers for the indexes -6..5 only
pretty_round_counter ==
    IF round - 1 \in (0 - Len(hot_colour))..(Len(hot_colour) - 1)
    THEN [cold |-> Max2(0, round - 1),
          hot |-> hot_colour[((round - 1) % Len(hot_colour)) + 1],
          blanks |-> Max2(0, MAX_ROUNDS - round - 1)]
    ELSE [cold |-> 0, hot |-> "IndexError", blanks |-> 0]

\* what the user types as the guess and as the result
typed_guesses == Words(wordbank) \cup {UnknownWord}

typed_responses(guess) ==
    (IF guess \in Words(wordbank) THEN Responses(guess) ELSE {AlmostCorrect})
        \cup MalformedResponses \cup {AllCorrect}

CliInit ==
    /\ ranking = NotRanking
    /\ harness = NoHarness
    /\ Constructed
    /\ cli = [pc |-> "header", status |-> "running", code |-> -1,
              guesses |-> <<>>, responses |-> <<>>, guess |-> <<>>, game_response |-> <<>>]

\* main returns
main_returns(status, code) == [cli EXCEPT !.pc = "exited", !.status = status, !.code = code]

\* an exception other than KeyboardInterrupt leaves main
main_raises(error) == [cli EXCEPT !.pc = "exited", !.status = error]

\* rich.print(f'... Round {predictor.round} - {pretty_round_counter()}')
render_header ==
    /\ cli.pc = "header"
    /\ cli' = IF pretty_round_counter.hot = "IndexError"
              THEN main_raises("IndexError")
              ELSE [cli EXCEPT !.pc = "predict"]
    /\ UNCHANGED <<engine, call, outcome, suggestions, guessed, honest_targets, ranking, harness>>

\* suggestions = predictor.predict_wordle(); if not suggestions: ... return 1
show_suggestions ==
    /\ cli.pc = "predict"
    /\ predict_wordle
    /\ cli' = IF outcome' = "StatisticsError" THEN main_raises("StatisticsError")
              ELSE IF suggestions' = <<>> THEN main_returns("ran out of words", 1)
              ELSE [cli EXCEPT !.pc = "input", !.guess = <<>>, !.game_response = <<>>]

\* 'response' in e.args[0]: the two messages about the game response have
\* the word, the message about the guess does not
message_names_response(game_response) ==
    \/ \E i \in 1..Len(game_response) : game_response[i] \notin {"w", "m", "c"}
    \/ Len(game_response) # 5

\* the inner loop: the inputs that are still empty are asked for, then
\* predictor.calibrate(guess, game_response) and the handlers of its signals
ask_and_calibrate ==
    /\ cli.pc = "input"
    /\ \E guess \in (IF cli.guess = <<>> THEN typed_guesses ELSE {cli.guess}) :
          \E game_response \in (IF cli.game_response = <<>>
                                 THEN typed_responses(guess) ELSE {cli.game_response}) :
              /\ calibrate(guess, game_response)
              /\ cli' =
                    IF outcome' = "returned"
                    THEN [cli EXCEPT !.pc = "header",
                                     !.guesses = Append(@, guess),
                                     !.responses = Append(@, game_response),
                                     !.guess = guess,
                                     !.game_response = game_response]
                    ELSE IF outcome' = "ValueError"
                    THEN IF message_names_response(game_response)
                         THEN [cli EXCEPT !.guess = guess, !.game_response = <<>>]
                         ELSE [cli EXCEPT !.guess = <<>>, !.game_response = game_response]
                    ELSE IF outcome' = "EndGameError" THEN main_returns("lost", 1)
                    ELSE main_returns("won", 0)

\* except KeyboardInterrupt, while an input is awaited
keyboard_interrupt ==
    /\ cli.pc = "input"
    /\ cli' = main_returns("bye", 0)
    /\ UNCHANGED <<engine, call, outcome, suggestions, guessed, honest_targets, ranking, harness>>

CliNext == render_header \/ show_suggestions \/ ask_and_calibrate \/ keyboard_interrupt

CliSpec == CliInit /\ [][CliNext]_vars

----------------------------------------------------------------------------
(* Properties *)

Accepted == call.op = "calibrate" /\ outcome = "returned"

AcceptedStep == call'.op = "calibrate" /\ outcome' = "returned"

CalibrateCalled == call'.op = "calibrate"

\* the words tried as the guess of a call that is screened
AnyGuess == Lexicon \cup {UnknownWord}

\* C1: in a session whose responses are all the honest responses for one
\* target T (never guessed), T is in the store after every accepted calibrate.
C1_TargetStaysInStore == honest_targets \subseteq Words(wordbank)

\* C2, as stated: after calibrate(W, f) has been called, for any feedback f,
\* W is not in the store.
C2_GuessGoneAfterAnyCall ==
    call.op = "calibrate" => call.guess \notin Words(wordbank)

\* C2, amended: a guess whose calibrate call was accepted is not in the
\* store after the call, nor in any later state of the session.
C2_AcceptedGuessStaysOut == guessed \cap Words(wordbank) = {}

C2_Witness ==
    /\ call.op = "predict_wordle"
    /\ Cardinality(guessed) >= 2
    /\ Len(wordbank) >= 2

\* C3: the store is a subset of the lexicon, and no call (calibrate or
\* predict_wordle) adds a word to it: the words after a call are among the
\* words before it, so the size never grows.
C3_StoreOnlyShrinks ==
    /\ Words(wordbank) \subseteq Lexicon
    /\ [][/\ Words(wordbank') \subseteq Words(wordbank)
          /\ Len(wordbank') <= Len(wordbank)]_vars

C3_Witness ==
    /\ Accepted
    /\ round >= 3
    /\ 0 < Len(wordbank)
    /\ Len(wordbank) < LexiconSize - 2

\* the positions of guess that hold letter
Occurrences(guess, letter) == {i \in 1..Len(guess) : guess[i] = letter}

\* C4: when an accepted calibrate(g, f) marks a letter wrong at each of its
\* occurrences in g, and the letter was neither in correct_letters nor in
\* misplaced_letters before the call, no word of the resulting store has it.
C4_WrongLetterExcluded ==
    [][AcceptedStep =>
        \A letter \in Letters(call'.guess) :
            (/\ \A i \in Occurrences(call'.guess, letter) : call'.game_response[i] = "w"
             /\ letter \notin CorrectKeys(correct_letters)
             /\ letter \notin DOMAIN misplaced_letters)
            => \A word \in Words(wordbank') : letter \notin Letters(word)]_vars

C4_Witness ==
    /\ Accepted
    /\ round >= 3
    /\ wordbank # <<>>
    /\ \E i \in Positions :
          /\ call.game_response[i] = "w"
          /\ call.guess[i] \in DOMAIN wrong_letters
          /\ wrong_letters[call.guess[i]] = {i}

\* C5: every word of the store, and every word predict_wordle returned, has
\* the confirmed letter at each position recorded in correct_letters.
C5_CorrectLettersRetained ==
    \A k \in 1..Len(correct_letters) :
        \A i \in correct_letters[k].indexes :
            /\ \A word \in Words(wordbank) : word[i] = correct_letters[k].letter
            /\ \A n \in 1..Len(suggestions) : suggestions[n][i] = correct_letters[k].letter

C5_Witness ==
    /\ call.op = "predict_wordle"
    /\ suggestions # <<>>
    /\ Len(correct_letters) >= 2
    /\ Len(wordbank) >= 2

\* C6: after an accepted calibrate, every word of the store contains every
\* letter that is a key of misplaced_letters or of correct_letters.
C6_EvidenceLettersPresent ==
    Accepted =>
        \A word \in Words(wordbank) :
            (DOMAIN misplaced_letters) \cup CorrectKeys(correct_letters) \subseteq Letters(word)

\* C7: after an accepted calibrate(g, f), no word of the store has g[i] at a
\* position i with f[i] = "m".
C7_MisplacedPositionExcluded ==
    Accepted =>
        \A i \in Positions :
            call.game_response[i] = "m" =>
                \A word \in Words(wordbank) : word[i] # call.guess[i]

\* letter is recorded correct or misplaced at a position other than j
EvidenceElsewhere(letter, j) ==
    \/ CorrectIndexes(correct_letters, letter) \ {j} # {}
    \/ /\ letter \in DOMAIN misplaced_letters
       /\ misplaced_letters[letter] \ {j} # {}

\* C8: after an accepted calibrate(g, f) with f[j] = "w", when g[j] is
\* recorded correct or misplaced at another position, no word of the store
\* has g[j] at position j, and g[j] is not a wrong letter (a word is not
\* dropped for containing it).
C8_WrongPositionExcluded ==
    Accepted =>
        \A j \in Positions :
            (call.game_response[j] = "w" /\ EvidenceElsewhere(call.guess[j], j)) =>
                /\ \A word \in Words(wordbank) : word[j] # call.guess[j]
                /\ call.guess[j] \notin DOMAIN wrong_letters

\* C9, as stated: calibrate(g, "ccccc") signals Victory whatever the round.
C9_VictoryAtAnyRound ==
    (call.op = "calibrate" /\ call.game_response = AllCorrect) => outcome = "Victory"

\* C9, amended: calibrate(g, "ccccc") signals Victory for every g (known or
\* not) while round <= 6; the round check comes first, so with round > 6 it
\* signals EndGameError.
C9_VictoryWhileActive ==
    /\ (call.op = "calibrate" /\ call.game_response = AllCorrect) =>
           outcome = (IF round <= RoundLimit THEN "Victory" ELSE "EndGameError")
    /\ \A guess \in AnyGuess :
           screen_inputs(guess, AllCorrect) =
               (IF round <= RoundLimit THEN "Victory" ELSE "EndGameError")

C9_Witness ==
    /\ call.op = "calibrate"
    /\ call.game_response = AllCorrect
    /\ outcome = "Victory"
    /\ round = RoundLimit

\* C10: after six accepted calibrate calls the round is 7, and then every
\* calibrate call whose response is not all-correct signals EndGameError and
\* leaves the round, the store and the constraint state as they are.
C10_LostIsTerminal ==
    /\ [](round = Cardinality(guessed) + 1)
    /\ [](round = RoundLimit + 1 =>
            \A guess \in AnyGuess :
                \A game_response \in (WellFormedResponses \cup MalformedResponses) \ {AllCorrect} :
                    screen_inputs(guess, game_response) = "EndGameError")
    /\ [][(round = RoundLimit + 1 /\ CalibrateCalled) =>
            (outcome' = "EndGameError" /\ UNCHANGED engine)]_vars

C10_Witness ==
    /\ Cardinality(guessed) = RoundLimit
    /\ call.op = "calibrate"
    /\ call.game_response # AllCorrect
    /\ outcome = "EndGameError"
    /\ wordbank # <<>>

\* the response has a wrong length or a character that is no code
Malformed(game_response) ==
    \/ Len(game_response) # WORDLE_MAX_WORLD_LENGTH
    \/ \E i \in 1..Len(game_response) : game_response[i] \notin Codes

\* C11, as stated: every calibrate call with a malformed response or a guess
\* that is not a known word signals ValueError and leaves the state unchanged.
C11_RejectedWithValueError ==
    [][(CalibrateCalled /\ (Malformed(call'.game_response) \/ call'.guess \notin Lexicon))
          => (outcome' = "ValueError" /\ UNCHANGED engine)]_vars

\* C11, amended: while round <= 6, a calibrate call with a malformed response,
\* or with a guess that is not in the store and a response that is not
\* all-correct, signals ValueError; with round > 6 it signals EndGameError, and
\* an unknown guess with the all-correct response signals Victory.  In every
\* one of these cases, and whenever ValueError is signalled, the round, the
\* previous result, the store (words, ranks, order) and the constraint sets
\* are unchanged.
C11_RejectionLeavesState ==
    /\ [](\A guess \in AnyGuess :
            \A game_response \in MalformedResponses \cup {AlmostCorrect, AllWrong} :
                (Malformed(game_response) \/ guess \notin Words(wordbank)) =>
                    screen_inputs(guess, game_response) =
                        (IF round <= RoundLimit THEN "ValueError" ELSE "EndGameError"))
    /\ [][(CalibrateCalled /\
             (Malformed(call'.game_response) \/ call'.guess \notin Words(wordbank)))
            => (/\ outcome' \in {"ValueError", "EndGameError", "Victory"}
                /\ UNCHANGED engine)]_vars
    /\ [][(CalibrateCalled /\ outcome' = "ValueError") => UNCHANGED engine]_vars

C11_Witness ==
    /\ call.op = "calibrate"
    /\ call.guess = UnknownWord
    /\ call.game_response = AlmostCorrect
    /\ outcome = "ValueError"
    /\ round >= 3
    /\ Len(wordbank) >= 2

\* C12: in an active round, a calibrate call whose guess is a word of the
\* original lexicon and whose response is well-formed is not rejected as an
\* unknown word, even when an earlier round removed the word from the store.
C12_LexiconGuessAccepted ==
    (/\ call.op = "calibrate"
     /\ call.guess \in Lexicon
     /\ call.game_response \in WellFormedResponses
     /\ round <= RoundLimit)
    => outcome # "ValueError"

\* C13, as stated: once a calibrate call has signalled Victory, no later
\* calibrate call changes the round, the store or the constraint state.
C13_NoRoundAfterVictory ==
    [][(outcome = "Victory" /\ CalibrateCalled) => UNCHANGED engine]_vars

\* C13, amended: the call that signals Victory leaves the round, the store
\* and the constraint state unchanged, and the engine keeps no record of it:
\* in the state after it the round is still active, every word of the store
\* passes screening with a well-formed response that is not all-correct, and
\* such a call made next is accepted and advances the round.
C13_VictoryNotRecorded ==
    /\ [][(CalibrateCalled /\ outcome' = "Victory") => UNCHANGED engine]_vars
    /\ [](outcome = "Victory" =>
            /\ round <= RoundLimit
            /\ \A guess \in Words(wordbank) :
                   \A game_response \in {AlmostCorrect, AllWrong} :
                       screen_inputs(guess, game_response) = "returned")
    /\ [][(outcome = "Victory" /\ CalibrateCalled /\ call'.guess \in Words(wordbank)
           /\ call'.game_response \in WellFormedResponses \ {AllCorrect})
          => (outcome' = "returned" /\ round' = round + 1)]_vars

C13_Witness ==
    /\ call.op = "calibrate"
    /\ outcome = "Victory"
    /\ call.guess \in Words(wordbank)
    /\ round >= 3
    /\ Len(wordbank) >= 2

\* C14: whenever the store is empty, predict_wordle returns the empty list
\* and raises nothing.
C14_PredictOnEmptyStore ==
    (call.op = "predict_wordle" /\ wordbank = <<>>) =>
        (outcome = "returned" /\ suggestions = <<>>)

\* predict_wordle was the last call and it ran in exploration mode
Explored ==
    /\ call.op = "predict_wordle"
    /\ (round = 1 \/ previous_result = AllWrong)

\* the words of the store, in store order, that have no repeated letter and
\* whose rank times the number of ranks is at least cutoff_times_n
PoolAbove(cutoff_times_n) ==
    LET all == SelectSeq(wordbank, LAMBDA e :
                   /\ ~has_repeating_letters(e.word)
                   /\ e.rank * Len(wordbank) >= cutoff_times_n)
    IN  {all[i].word : i \in 1..Min2(TopResults, Len(all))}

\* the suggestions are min(output_size, size of pool) distinct words of pool
SuggestionsFrom(pool) ==
    /\ outcome = "returned"
    /\ Len(suggestions) = Min2(output_size, Cardinality(pool))
    /\ \A n \in 1..Len(suggestions) : suggestions[n] \in pool
    /\ \A n, k \in 1..Len(suggestions) : n # k => suggestions[n] # suggestions[k]

\* C15, as stated: in exploration mode predict_wordle returns
\* min(output_size, size of pool) distinct words of the pool of words with no
\* repeated letter and rank at least the mean of all current ranks.
C15_PoolAboveMean ==
    Explored => SuggestionsFrom(PoolAbove(SumSeq(Ranks(wordbank))))

\* predict_wordle was the last call and it ran in ranked mode
Ranked ==
    /\ call.op = "predict_wordle"
    /\ round > 1
    /\ previous_result # AllWrong

\* C16: the store is sorted by rank, highest first, in every state; in
\* ranked mode predict_wordle returns exactly the first
\* min(output_size, store size) words of the store, so the suggestions are in
\* non-increasing rank order and no word left out ranks strictly above a
\* suggested one.
C16_RankedSuggestions ==
    /\ \A i, j \in 1..Len(wordbank) : i < j => wordbank[i].rank >= wordbank[j].rank
    /\ Ranked =>
          /\ outcome = "returned"
          /\ Len(suggestions) = Min2(output_size, Len(wordbank))
          /\ \A n \in 1..Len(suggestions) : suggestions[n] = wordbank[n].word
          /\ \A n, k \in 1..Len(suggestions) :
                 n < k => RankOf(wordbank, suggestions[n]) >= RankOf(wordbank, suggestions[k])
          /\ \A n \in 1..Len(suggestions) :
                 \A word \in Words(wordbank) \ {suggestions[k] : k \in 1..Len(suggestions)} :
                     RankOf(wordbank, word) <= RankOf(wordbank, suggestions[n])

C16_Witness ==
    /\ Ranked
    /\ Len(suggestions) = output_size
    /\ Len(wordbank) > output_size
    /\ wordbank[1].rank > wordbank[Len(wordbank)].rank
    /\ round >= 3

\* C17: a predict_wordle call, whether it returns or raises, leaves the
\* round, the previous result, the store (words, ranks, order) and every
\* constraint set unchanged; the engine state changes only in a calibrate
\* call that is accepted.
C17_PredictReadOnly ==
    /\ [][call'.op = "predict_wordle" => UNCHANGED engine]_vars
    /\ [][~(UNCHANGED engine) => AcceptedStep]_vars

C17_Witness ==
    /\ Ranked
    /\ outcome = "returned"
    /\ Len(suggestions) = output_size
    /\ Len(wordbank) >= output_size
    /\ misplaced_letters # EmptyDict
    /\ wrong_letters # EmptyDict

\* C18: the round is 1 at construction, an accepted calibrate adds exactly 1
\* to it, a calibrate that signals ValueError, Victory or EndGameError and a
\* predict_wordle call leave it as it is; it never exceeds 7 and no more than
\* six calibrate calls are accepted.
C18_RoundCounter ==
    /\ round = 1
    /\ [][IF AcceptedStep THEN round' = round + 1 ELSE round' = round]_vars
    /\ [][(CalibrateCalled /\ outcome' \in {"ValueError", "Victory", "EndGameError"})
            => round' = round]_vars
    /\ [](round <= RoundLimit + 1)
    /\ [](Cardinality(guessed) <= RoundLimit)
    /\ [][AcceptedStep => (guessed' # guessed /\ round <= RoundLimit)]_vars

C18_Witness ==
    /\ round = RoundLimit + 1
    /\ Accepted
    /\ Cardinality(guessed) = RoundLimit

\* C19: the rank of a word is the sum over its positions of the count of its
\* letter at that position, floored at 1: each letter adds at least 1 to the
\* rank, and the rank is at least the length of the word.
C19_RankIsFlooredSum ==
    ranking.ranked =>
        LET word == ranking.word
            table == ranking.frequency_table
            score(i) == IF table[word[i]][i] >= 1 THEN table[word[i]][i] ELSE 1
        IN  /\ ranking.rank = SumSeq([i \in 1..Len(word) |-> score(i)])
            /\ ranking.rank >= Len(word)
            /\ \A i \in 1..Len(word) :
                   rank_word_popularity(SubSeq(word, 1, i), table)
                       >= rank_word_popularity(SubSeq(word, 1, i - 1), table) + 1

C19_Witness ==
    /\ ranking.ranked
    /\ Len(ranking.word) = WORDLE_MAX_WORLD_LENGTH
    /\ \E i \in Positions : ranking.frequency_table[ranking.word[i]][i] = 0
    /\ \E i \in Positions : ranking.frequency_table[ranking.word[i]][i] > 1
    /\ ranking.rank > WORDLE_MAX_WORLD_LENGTH

\* the positions of word that hold the letter confirmed there
CorrectMatches(word, correct) ==
    Cardinality({i \in 1..Len(word) : i \in CorrectIndexes(correct, word[i])})

\* the rank promotion gives a word of rank rank, for a bonus and a scale reference
PromotedRank(word, rank, bonus, reference, misplaced) ==
    IF bonus = 0 THEN rank
    ELSE IF has_repeating_letters(word) /\ Letters(word) \cap DOMAIN misplaced = {}
         THEN RoundTenths(10 * reference - bonus * rank)
         ELSE RoundTenths(10 * reference + bonus * rank)

\* C21, as stated: the bonus of a surviving word is the number of its
\* positions that match a confirmed letter plus the number of its distinct
\* letters that are misplaced letters.
C21_BonusPerDistinctLetter ==
    [][AcceptedStep =>
        \A word \in Words(wordbank') :
            RankOf(wordbank', word) =
                PromotedRank(word, RankOf(wordbank, word),
                             CorrectMatches(word, correct_letters')
                                 + Cardinality(Letters(word) \cap DOMAIN misplaced_letters'),
                             highest_rank, misplaced_letters')]_vars

\* C21, amended: the bonus is the number of positions of the word that match
\* a confirmed letter plus the number of positions of the word that hold a
\* misplaced letter: a misplaced letter occurring twice adds 2.
C21_BonusPerOccurrence ==
    [][AcceptedStep =>
        \A word \in Words(wordbank') :
            RankOf(wordbank', word) =
                PromotedRank(word, RankOf(wordbank, word),
                             CorrectMatches(word, correct_letters')
                                 + Cardinality({i \in 1..Len(word) :
                                                   word[i] \in DOMAIN misplaced_letters'}),
                             highest_rank, misplaced_letters')]_vars

C21_Witness ==
    /\ Accepted
    /\ \E word \in Words(wordbank) :
          \E letter \in DOMAIN misplaced_letters :
              /\ Count(word, letter) >= 2
              /\ CorrectMatches(word, correct_letters) >= 1

\* the constraint state after the call of a step
ConstraintsAfter ==
    [wrong |-> wrong_letters', misplaced |-> misplaced_letters',
     correct |-> correct_letters', unique |-> unique_letters']

\* the highest rank, before the call of a step, among the words that survive it
SurvivorsHighestRank ==
    LET survivors == SelectSeq(wordbank, LAMBDA e : e.word \in Words(wordbank'))
    IN  IF survivors = <<>> THEN 0 ELSE MaxSeq(Ranks(survivors))

\* C22, as stated: the scale reference of the promotion of an accepted
\* calibrate is the highest rank among the survivors of that round's
\* elimination.
C22_ReferenceFromSurvivors ==
    [][AcceptedStep =>
        \A word \in Words(wordbank') :
            RankOf(wordbank', word) =
                PromotedRank(word, RankOf(wordbank, word),
                             promotion_bonus(word, ConstraintsAfter),
                             SurvivorsHighestRank, misplaced_letters')]_vars

\* C22, amended: highest_rank is the highest rank of the store in every state
\* (0 for the empty store): it is set at construction and recomputed at the
\* end of every accepted calibrate, after promotion and sorting.  The
\* promotion of an accepted calibrate uses the value left by the previous
\* round, the highest rank of the store before this round's elimination.
C22_ReferenceFromPreviousRound ==
    /\ [](highest_rank = refreshed_highest_rank(wordbank))
    /\ [][AcceptedStep =>
            /\ highest_rank = MaxSeq(Ranks(wordbank))
            /\ \A word \in Words(wordbank') :
                   RankOf(wordbank', word) =
                       PromotedRank(word, RankOf(wordbank, word),
                                    promotion_bonus(word, ConstraintsAfter),
                                    MaxSeq(Ranks(wordbank)), misplaced_letters')]_vars

C22_Witness ==
    /\ Accepted
    /\ round >= 3
    /\ Len(wordbank) >= 2
    /\ correct_letters # <<>>
    /\ highest_rank > MaxSeq(Ranks(prepare_wordbank))
    /\ wordbank[1].rank > wordbank[Len(wordbank)].rank

\* C23: after an accepted calibrate no letter is a key of wrong_letters and
\* also a key of correct_letters or of misplaced_letters.
C23_WrongLettersDisjoint ==
    Accepted =>
        (DOMAIN wrong_letters)
            \cap ((DOMAIN misplaced_letters) \cup CorrectKeys(correct_letters)) = {}

\* C24: after an accepted calibrate the flag is true exactly when a letter
\* has two or more confirmed positions, and while the flag is true every word
\* of the store has a repeated letter.
C24_RepeatFlag ==
    Accepted =>
        /\ target_word_has_repeating_letters
               <=> (\E k \in 1..Len(correct_letters) :
                       Cardinality(correct_letters[k].indexes) >= 2)
        /\ target_word_has_repeating_letters =>
               \A word \in Words(wordbank) : has_repeating_letters(word)

\* the constraint state of the current state
Constraints ==
    [wrong |-> wrong_letters, misplaced |-> misplaced_letters,
     correct |-> correct_letters, unique |-> unique_letters]

\* word has a positive bonus, a repeated letter and no misplaced letter
Demoted(word) ==
    /\ promotion_bonus(word, Constraints) > 0
    /\ has_repeating_letters(word)
    /\ Letters(word) \cap DOMAIN misplaced_letters = {}

\* word has a positive bonus, and no repeated letter or a misplaced letter
Promoted(word) ==
    /\ promotion_bonus(word, Constraints) > 0
    /\ (~has_repeating_letters(word) \/ Letters(word) \cap DOMAIN misplaced_letters # {})

\* C25: after an accepted calibrate, a word of the store with positive bonus,
\* a repeated letter and no misplaced letter ranks no higher than any word of
\* the store with positive bonus that has distinct letters or a misplaced
\* letter.
C25_RepeatsRankedBelow ==
    Accepted =>
        \A low, high \in Words(wordbank) :
            (Demoted(low) /\ Promoted(high)) =>
                RankOf(wordbank, low) <= RankOf(wordbank, high)

C25_Witness ==
    /\ Accepted
    /\ round >= 3
    /\ \E low, high \in Words(wordbank) :
          /\ Demoted(low)
          /\ Promoted(high)
          /\ RankOf(wordbank, low) < RankOf(wordbank, high)

\* games of the target that have left the block with an opening guess
Opened(target_word) ==
    { g \in game_args : target_of(g) = target_word /\ harness.pc[g] = "playing" }

\* games of the target that are inside the block
InBlock(target_word) ==
    { g \in game_args :
        /\ target_of(g) = target_word
        /\ harness.pc[g] \in {"locked", "choosing", "storing", "appending"} }

\* C26: for every interleaving of the games of one target, at most one game
\* is between taking the lock and releasing it and it is the holder of the
\* lock; the record a game has read is the record in the array until that
\* game writes it back; two games that have left the block opened with
\* different guesses; and whenever the lock is free the array holds exactly
\* the opening guesses of the games that have left the block, within its
\* capacity.
C26_DistinctOpeners ==
    harness # NoHarness =>
        \A t \in targets :
            /\ InBlock(t) = IF harness.lock[t] = NoGame THEN {} ELSE {harness.lock[t]}
            /\ \A g \in InBlock(t) :
                  harness.pc[g] = "choosing" =>
                      harness.starting_words[g] = get_used_starting_words(t)
            /\ \A g1, g2 \in Opened(t) :
                  g1 # g2 => harness.guess[g1] # harness.guess[g2]
            /\ Len(harness.used[t]) <= array_capacity
            /\ harness.lock[t] = NoGame =>
                  get_used_starting_words(t) = { harness.guess[g] : g \in Opened(t) }

\* two games of one target have left the block, the lock is free and the
\* array holds two words
C26_Witness ==
    /\ harness # NoHarness
    /\ \E t \in targets :
          /\ Cardinality(Opened(t)) >= 2
          /\ harness.lock[t] = NoGame
          /\ Len(harness.used[t]) >= 2 * WORDLE_MAX_WORLD_LENGTH

\* C27: in every state reachable through calibrate calls no position is
\* recorded as confirmed for two different letters of correct_letters.
C27_ConfirmedPositionsConsistent ==
    \A first, second \in CorrectKeys(correct_letters) :
        first # second =>
            CorrectIndexes(correct_letters, first)
                \cap CorrectIndexes(correct_letters, second) = {}

\* accepted calls have confirmed positions of two different letters
C27_Witness ==
    /\ Accepted /\ round >= 3
    /\ \E first, second \in CorrectKeys(correct_letters) :
          /\ first # second
          /\ CorrectIndexes(correct_letters, first) # {}
          /\ CorrectIndexes(correct_letters, second) # {}

\* C28: whenever the candidate store is not empty and output_size >= 1,
\* predict_wordle returns at least one word.
C28_SuggestionsWhileCandidates ==
    (call.op = "predict_wordle" /\ wordbank # <<>> /\ output_size >= 1) =>
        (outcome = "returned" /\ suggestions # <<>>)

\* C30, as stated: calibrate signals Victory only when the guess is a word of
\* the current store.
C30_VictoryOnlyForStoreGuess ==
    outcome = "Victory" => call.guess \in Words(wordbank)

\* C30, amended: Victory is signalled only by a calibrate call with the
\* all-correct response while round <= 6, and it is signalled whether or not
\* the guess is a word of the store: a guess that is in no dictionary, or that
\* an earlier call removed, wins with the all-correct response, and is
\* rejected with ValueError with a well-formed response that is not all-correct.
C30_VictoryForAnyGuess ==
    /\ outcome = "Victory" =>
          /\ call.op = "calibrate"
          /\ call.game_response = AllCorrect
          /\ round <= RoundLimit
    /\ round <= RoundLimit =>
          \A guess \in (guessed \cup {UnknownWord}) \ Words(wordbank) :
              /\ screen_inputs(guess, AllCorrect) = "Victory"
              /\ screen_inputs(guess, AlmostCorrect) = "ValueError"
    /\ (call.op = "calibrate" /\ call.guess \notin Words(wordbank)
           /\ call.game_response = AllCorrect /\ round <= RoundLimit) =>
          outcome = "Victory"

\* a word that is in no dictionary has won in a later round
C30_Witness ==
    /\ call.op = "calibrate"
    /\ call.guess = UnknownWord
    /\ call.guess \notin Words(wordbank)
    /\ outcome = "Victory"
    /\ round >= 3

\* C29: after the first accepted call, whose guess holds a letter exactly
\* twice, once marked correct and once marked wrong in either order, every
\* word of the store holds that letter exactly once.
C29_DuplicateLetterOrderIndependent ==
    (Accepted /\ guessed = {call.guess}) =>
        \A letter \in Letters(call.guess) :
            (/\ Count(call.guess, letter) = 2
             /\ \E i, j \in Positions :
                   /\ call.guess[i] = letter /\ call.game_response[i] = "c"
                   /\ call.guess[j] = letter /\ call.game_response[j] = "w") =>
                \A word \in Words(wordbank) : Count(word, letter) = 1

\* C31: the loop never ends with an unhandled error when the round header is
\* rendered, and a session in which six calibrate calls were accepted without
\* Victory ends by reporting the loss (EndGameError) with exit code 1.
C31_LossReported ==
    /\ cli.status # "IndexError"
    /\ (cli.pc = "exited" /\ Len(cli.guesses) = MAX_ROUNDS) =>
          (cli.status = "lost" /\ cli.code = 1)

============================================================================
